---- MODULE Spec2Model ----
(***************************************************************************)
(* Village barber simulation (src/task_4.py).                              *)
(*                                                                         *)
(* A Village owns an ordered list of residents; some of them are Barbers.  *)
(* run(count) repeatedly picks the resident whose beard is due first and   *)
(* the barber who is free first, and lets that barber shave that resident. *)
(* Residents are identified by their position in Village.residents (the    *)
(* list only grows by append, so a position is an object identity).        *)
(***************************************************************************)
EXTENDS Integers, Sequences, FiniteSets, TLC

(* ------------------------------ bounds -------------------------------- *)

\* Largest number of add_resident calls before run.
MaxResidents == 3
\* Largest finite count passed to run (the driver's own count is MainCount).
MaxCount == 2
\* Horizon of the logical clock in an unbounded run (count = -1).
MaxTime == 12

\* beard_growth_time values of the residents that are added.
GrowthTimes == {1, 2}
\* shave_time values of the barbers that are added; the constructor rejects
\* nothing, so a negative duration is among them.
ShaveTimes == {0 - 3, 1, 2}

(* ------------------------------ entities ------------------------------ *)

\* Village.Resident.__init__
Resident(beard_growth_time) ==
    [kind |-> "Resident", beard_growth_time |-> beard_growth_time,
     last_shave_time |-> 0]

\* Village.Barber.__init__
Barber(beard_growth_time, shave_time) ==
    [kind |-> "Barber", beard_growth_time |-> beard_growth_time,
     last_shave_time |-> 0, shave_time |-> shave_time, busy_till |-> 0]

\* isinstance(r, Village.Barber)
isinstance_Barber(r) == r.kind = "Barber"

\* Resident._get_next_shave_time
get_next_shave_time(r) == r.last_shave_time + r.beard_growth_time

\* Barber.busy_till
busy_till(b) == b.busy_till

\* Resident.set_last_shave_time
set_last_shave_time(r, t) == [r EXCEPT !.last_shave_time = t]

(* --------------------------- builtin min / max ------------------------ *)

\* A scan that keeps the LAST smallest key (a wrong tie-break).
RECURSIVE min_scan_last(_, _, _)
min_scan_last(keys, k, best) ==
    IF k > Len(keys) THEN best
    ELSE min_scan_last(keys, k + 1, IF keys[k] <= keys[best] THEN k ELSE best)

\* Python's min(iterable, key=...): one left-to-right scan that replaces the
\* best item only by a strictly smaller key. keys[k] is the key of item k.
RECURSIVE min_scan(_, _, _)
min_scan(keys, k, best) ==
    IF k > Len(keys) THEN best
    ELSE min_scan(keys, k + 1, IF keys[k] < keys[best] THEN k ELSE best)

\* Position of the item min returns, for a non-empty list of keys.
min_pos(keys) == min_scan(keys, 2, 1)

\* A max that returns the smaller argument.
max_wrong(a, b) == IF b < a THEN b ELSE a

\* Python's max(a, b).
max(a, b) == IF b > a THEN b ELSE a

(* ------------------------------- state -------------------------------- *)

VARIABLES
    residents,  \* Village.residents, a sequence of Resident / Barber records
    pc,         \* position of the program
    count,      \* run's argument
    i,          \* the counter of Village.__range
    resident,   \* run's local: position of the selected resident (0: unset)
    barber,     \* run's local: position of the selected barber (0: unset)
    time,       \* run's local: time of the shave event
    shaves,     \* number of Barber.shave calls so far (lines printed)
    line,       \* flags of the last printed line
    error,      \* the exception that left run, "none" if none
    intAt       \* where a KeyboardInterrupt hit run, "none" if none

vars == <<residents, pc, count, i, resident, barber, time, shaves, line,
          error, intAt>>

\* Positions of Village.residents.
Positions == 1..Len(residents)

\* [r for r in self.residents if isinstance(r, Village.Barber)], as positions.
barbers_of(rs) ==
    SelectSeq([k \in 1..Len(rs) |-> k], LAMBDA k : isinstance_Barber(rs[k]))

\* A selection of the resident whose next shave is due last.
get_next_shave_latest(rs) ==
    min_pos([k \in 1..Len(rs) |-> 0 - get_next_shave_time(rs[k])])

\* Village.get_next_shave, for a non-empty village.
get_next_shave(rs) ==
    min_pos([k \in 1..Len(rs) |-> get_next_shave_time(rs[k])])

\* Village.get_next_free_barber, for a village with a barber.
get_next_free_barber(rs) ==
    LET bs == barbers_of(rs)
    IN  bs[min_pos([k \in 1..Len(bs) |-> busy_till(rs[bs[k]])])]


(* ------------------------- Barber.shave, in parts --------------------- *)

\* A late test against the time of the previous shave instead of the due time.
shave_is_late_wrong(rs, r, t) == t # rs[r].last_shave_time

\* Barber.shave, line 65: the "Barber is late for the shave!" test.
shave_is_late(rs, r, t) == t # get_next_shave_time(rs[r])

\* Barber.shave, line 63: the "Barber shaves himself!" test (resident is self).
shave_is_self(b, r) == r = b

\* A busy_till kept in one attribute shared by all barbers.
shave_set_busy_till_shared(rs, b, t) ==
    [k \in 1..Len(rs) |->
        IF isinstance_Barber(rs[k])
        THEN [rs[k] EXCEPT !.busy_till = t + rs[b].shave_time]
        ELSE rs[k]]

\* A busy_till update that subtracts the duration of the shave.
shave_set_busy_till_minus(rs, b, t) ==
    [rs EXCEPT ![b].busy_till = t - rs[b].shave_time]

\* Barber.shave, line 68: self.__busy_till = time + self.__shave_time
shave_set_busy_till(rs, b, t) ==
    [rs EXCEPT ![b].busy_till = t + rs[b].shave_time]

\* A last_shave_time update that stores the raw event time.
shave_set_last_raw(rs, b, r, t) ==
    [rs EXCEPT ![r] = set_last_shave_time(rs[r], t)]

\* Barber.shave, line 69: resident.set_last_shave_time(self.__busy_till)
shave_set_last(rs, b, r, t) ==
    [rs EXCEPT ![r] = set_last_shave_time(rs[r], busy_till(rs[b]))]

(* ------------------------------ Village ------------------------------- *)

\* A loop test that runs one iteration too many.
range_stop_late(c, n) == c # 0 - 1 /\ n > c

\* Village.__range, line 98: if count != -1 and i >= count: break
range_stop(c, n) == c # 0 - 1 /\ n >= c

\* The residents a caller may add.
NewResidents ==
    {Resident(g) : g \in GrowthTimes}
        \cup {Barber(g, s) : g \in GrowthTimes, s \in ShaveTimes}

\* The counts a caller may pass to run: -1 is the unbounded run.
Counts == {0 - 2, 0 - 1} \cup 0..MaxCount

\* The count of the driver's run.
MainCount == 20

\* The village of the driver.
MainVillage == <<Resident(2), Resident(4), Barber(6, 1)>>

\* Program positions inside run's try block.
InRun == {"range", "body", "shave_print", "shave_busy", "shave_last"}

Init ==
    /\ residents = <<>>
    /\ pc = "setup"
    /\ count = 0
    /\ i = 0
    /\ resident = 0
    /\ barber = 0
    /\ time = 0
    /\ shaves = 0
    /\ line = [self |-> FALSE, late |-> FALSE]
    /\ error = "none"
    /\ intAt = "none"

\* Village.add_resident
add_resident ==
    /\ pc = "setup"
    /\ Len(residents) < MaxResidents
    /\ \E r \in NewResidents : residents' = Append(residents, r)
    /\ UNCHANGED <<pc, count, i, resident, barber, time, shaves, line, error,
                   intAt>>

\* Village.run is called: the generator __range starts with i = 0.
run ==
    /\ pc = "setup"
    /\ \E c \in Counts : count' = c
    /\ pc' = "range"
    /\ i' = 0
    /\ UNCHANGED <<residents, resident, barber, time, shaves, line, error,
                   intAt>>

\* The driver: a fresh village, three add_resident calls, run(20).
main ==
    /\ pc = "setup"
    /\ residents = <<>>
    /\ residents' = MainVillage
    /\ count' = MainCount
    /\ pc' = "range"
    /\ i' = 0
    /\ UNCHANGED <<resident, barber, time, shaves, line, error, intAt>>

\* Village.__range: the loop test; the generator yields or is exhausted, and
\* an exhausted generator ends run's for loop, so run returns.
range_next ==
    /\ pc = "range"
    /\ pc' = IF range_stop(count, i) THEN "done" ELSE "body"
    /\ UNCHANGED <<residents, count, i, resident, barber, time, shaves, line,
                   error, intAt>>

\* run, lines 108-110: the two selections and the event time. min of an
\* empty list raises ValueError, which run does not catch.
select ==
    /\ pc = "body"
    /\ IF residents = <<>>
       THEN /\ pc' = "raised"
            /\ error' = "ValueError"
            /\ UNCHANGED <<resident, barber, time>>
       ELSE /\ resident' = get_next_shave(residents)
            /\ IF barbers_of(residents) = <<>>
               THEN /\ pc' = "raised"
                    /\ error' = "ValueError"
                    /\ UNCHANGED <<barber, time>>
               ELSE /\ barber' = get_next_free_barber(residents)
                    /\ time' = max(get_next_shave_time(residents[resident']),
                                   busy_till(residents[barber']))
                    /\ count = 0 - 1 => time' \in (0 - MaxTime)..MaxTime
                    /\ pc' = "shave_print"
                    /\ UNCHANGED error
    /\ UNCHANGED <<residents, count, i, shaves, line, intAt>>

\* Barber.shave, lines 62-67: the printed line and its two flags.
shave_print ==
    /\ pc = "shave_print"
    /\ shaves' = shaves + 1
    /\ line' = [self |-> shave_is_self(barber, resident),
                late |-> shave_is_late(residents, resident, time)]
    /\ pc' = "shave_busy"
    /\ UNCHANGED <<residents, count, i, resident, barber, time, error, intAt>>

\* Barber.shave, line 68.
shave_busy ==
    /\ pc = "shave_busy"
    /\ residents' = shave_set_busy_till(residents, barber, time)
    /\ pc' = "shave_last"
    /\ UNCHANGED <<count, i, resident, barber, time, shaves, line, error,
                   intAt>>

\* Barber.shave, line 69; shave returns and the generator resumes: i += 1.
shave_last ==
    /\ pc = "shave_last"
    /\ residents' = shave_set_last(residents, barber, resident, time)
    /\ i' = i + 1
    /\ pc' = "range"
    /\ UNCHANGED <<count, resident, barber, time, shaves, line, error, intAt>>

\* A KeyboardInterrupt is raised at the current position inside the try
\* block; the except clause swallows it and run returns.
interrupt ==
    /\ pc \in InRun
    /\ intAt' = pc
    /\ pc' = "done"
    /\ UNCHANGED <<residents, count, i, resident, barber, time, shaves, line,
                   error>>

\* The program without interrupts.
NextRun ==
    \/ add_resident
    \/ run
    \/ main
    \/ range_next
    \/ select
    \/ shave_print
    \/ shave_busy
    \/ shave_last

Next ==
    \/ add_resident
    \/ run
    \/ main
    \/ range_next
    \/ select
    \/ shave_print
    \/ shave_busy
    \/ shave_last
    \/ interrupt

Spec == Init /\ [][Next]_vars

\* An uninterrupted run: a sequential program takes its next step.
FairSpec == Init /\ [][NextRun]_vars /\ WF_vars(NextRun)


(* ------------------------- shared state predicates -------------------- *)

HasBarber == barbers_of(residents) # <<>>

AllPositive ==
    \A k \in Positions :
        /\ residents[k].beard_growth_time > 0
        /\ isinstance_Barber(residents[k]) => residents[k].shave_time > 0

Due(k) == get_next_shave_time(residents[k])

Busy(k) == busy_till(residents[k])

(* --------------------------------- C1 --------------------------------- *)

\* C1: run(count) with count >= 0 on a village with a barber never raises,
\* never performs more than count shaves, has performed exactly count shaves
\* when it has returned, and does return.
C1_RunPerformsCountShaves ==
    /\ [](count >= 0 /\ HasBarber /\ pc # "setup" =>
            /\ pc # "raised"
            /\ shaves <= count
            /\ pc = "done" => shaves = count /\ i = count)
    /\ (count >= 0 /\ HasBarber /\ pc = "range") ~> (pc = "done")

C1_Witness ==
    pc = "done" /\ HasBarber /\ count = MaxCount /\ shaves = count /\ count > 0

(* --------------------------------- C2 --------------------------------- *)

\* C2: when a shave event is complete, the shaved resident's last_shave_time
\* is the performing barber's new busy_till, which is time + shave_time, and
\* so differs from the raw event time unless shave_time is 0; the same holds
\* when the barber shaved itself.
C2_LastShaveTimeIsNewBusyTill ==
    (pc = "range" /\ shaves > 0) =>
        /\ residents[resident].last_shave_time = Busy(barber)
        /\ Busy(barber) = time + residents[barber].shave_time
        /\ residents[barber].shave_time # 0
              => residents[resident].last_shave_time # time

C2_Witness ==
    /\ pc = "range" /\ shaves > 1
    /\ resident = barber /\ line.self
    /\ residents[barber].last_shave_time = time + residents[barber].shave_time

(* --------------------------------- C3 --------------------------------- *)

\* C3: in every state of the collection, get_next_shave returns a resident
\* of minimum next-shave time over all residents such that every resident
\* added earlier has a strictly greater next-shave time, and
\* get_next_free_barber returns a Barber of minimum busy_till over the
\* Barbers such that every Barber added earlier has a strictly greater one.
C3_SelectionIsEarliestMinimum ==
    /\ residents # <<>> =>
          LET r == get_next_shave(residents)
          IN  /\ r \in Positions
              /\ \A k \in Positions :
                    /\ Due(k) >= Due(r)
                    /\ k < r => Due(k) > Due(r)
    /\ HasBarber =>
          LET b == get_next_free_barber(residents)
          IN  /\ b \in Positions
              /\ isinstance_Barber(residents[b])
              /\ \A k \in Positions :
                    isinstance_Barber(residents[k]) =>
                        /\ Busy(k) >= Busy(b)
                        /\ k < b => Busy(k) > Busy(b)

\* Both queries face a tie after the clock has moved, and neither answer is
\* the first item of its list.
C3_Witness ==
    /\ HasBarber /\ shaves > 0 /\ pc = "body"
    /\ LET r == get_next_shave(residents)
           b == get_next_free_barber(residents)
       IN  /\ r > 1
           /\ \E k \in Positions : k > r /\ Due(k) = Due(r)
           /\ \E j \in Positions : /\ j < b
                                   /\ isinstance_Barber(residents[j])
           /\ \E k \in Positions : /\ k > b
                                   /\ isinstance_Barber(residents[k])
                                   /\ Busy(k) = Busy(b)

(* --------------------------------- C4 --------------------------------- *)

\* C4: with Residents and no Barber, the failure of get_next_free_barber
\* (and so of run) is an explicit configuration error.
C4_NoBarberIsConfigurationError ==
    (pc = "raised" /\ residents # <<>> /\ ~HasBarber)
        => error = "ConfigurationError"

(* --------------------------------- C5 --------------------------------- *)

\* The barber's busy_till is updated and the target's last_shave_time is not.
HalfApplied ==
    /\ intAt = "shave_last"
    /\ residents[resident].last_shave_time # Busy(barber)

\* C5: an interrupt during run stops it between steps: run returns without
\* an error and no shave event is left half-applied.
C5_InterruptLeavesNoHalfAppliedShave ==
    intAt # "none" => pc = "done" /\ error = "none" /\ ~HalfApplied

(* --------------------------------- C6 --------------------------------- *)

\* C6: when run issues a shave event, its time is the larger of the selected
\* resident's next-shave time and the selected barber's busy_till, both as
\* they are before the event: it is one of the two and not below either, so
\* the shave starts no earlier than the end of that barber's previous shave.
C6_EventTimeIsMaxOfDueAndBusy ==
    pc = "shave_print" =>
        /\ resident = get_next_shave(residents)
        /\ barber = get_next_free_barber(residents)
        /\ time = Due(resident) \/ time = Busy(barber)
        /\ time >= Due(resident)
        /\ time >= Busy(barber)

C6_Witness ==
    /\ pc = "shave_print" /\ shaves > 0
    /\ Busy(barber) > Due(resident)
    /\ time = Busy(barber)

(* --------------------------------- C7 --------------------------------- *)

\* C7: a printed shave event is flagged late exactly when its time differs
\* from the target's due time before the mutation, which for run's events is
\* exactly when the barber's busy_till is greater than that due time; a late
\* event raises nothing; the driver's first event is barber 3 (b1) shaving
\* resident 1 (r1) at time 2, not late.
C7_LateFlag ==
    /\ pc = "shave_busy" =>
          /\ line.late <=> time # Due(resident)
          /\ line.late <=> Busy(barber) > Due(resident)
    /\ line.late => error = "none" /\ pc # "raised"
    /\ (pc = "shave_busy" /\ residents = MainVillage /\ shaves = 1) =>
          barber = 3 /\ resident = 1 /\ time = 2 /\ ~line.late

C7_Witness ==
    pc = "shave_busy" /\ count = MainCount /\ line.late /\ shaves < count

(* --------------------------------- C8 --------------------------------- *)

\* The attributes of resident k that no method assigns after construction.
Fixed(rs, k) ==
    IF isinstance_Barber(rs[k])
    THEN <<rs[k].kind, rs[k].beard_growth_time, rs[k].shave_time>>
    ELSE <<rs[k].kind, rs[k].beard_growth_time>>

\* C8: once run has started, every step keeps the membership and order of
\* residents and all growth and shave durations; a last_shave_time changes
\* only for the target, at line 69; a busy_till changes only for the
\* performing barber, at line 68; the selection step changes no resident.
C8_ShaveFrame ==
    [][pc # "setup" =>
          /\ Len(residents') = Len(residents)
          /\ \A k \in Positions :
                /\ Fixed(residents', k) = Fixed(residents, k)
                /\ residents'[k].last_shave_time # residents[k].last_shave_time
                      => pc = "shave_last" /\ k = resident
                /\ isinstance_Barber(residents[k])
                      => (residents'[k].busy_till # residents[k].busy_till
                            => pc = "shave_busy" /\ k = barber)
          /\ pc \in {"range", "body", "shave_print"}
                => residents' = residents]_vars

\* A barber has shaved another barber, whose busy_till is another value.
C8_Witness ==
    /\ pc = "range" /\ shaves > 0
    /\ resident # barber
    /\ isinstance_Barber(residents[resident])
    /\ Busy(resident) # Busy(barber)
    /\ residents[resident].last_shave_time = Busy(barber)

(* --------------------------------- C9 --------------------------------- *)

\* C9: with all durations positive, no step of run lowers a last_shave_time
\* or a busy_till, and the time of a shave event is not below the time of
\* the event before it.
C9_ClockNeverGoesBack ==
    [][(AllPositive /\ pc # "setup") =>
          /\ \A k \in Positions :
                /\ residents'[k].last_shave_time
                      >= residents[k].last_shave_time
                /\ isinstance_Barber(residents[k])
                      => residents'[k].busy_till >= residents[k].busy_till
          /\ (pc = "body" /\ pc' = "shave_print" /\ shaves > 0)
                => time' >= time]_vars

\* Two barbers, and an event that follows two others.
C9_Witness ==
    /\ AllPositive /\ pc = "shave_print" /\ shaves >= 2
    /\ Len(barbers_of(residents)) >= 2
    /\ time > 0


(* --------------------------------- C10 -------------------------------- *)

\* The durations that bound how far a shave may lag behind its due time.
MaxShaveTime == CHOOSE s \in ShaveTimes : \A t \in ShaveTimes : t <= s

MaxGrowthTime == CHOOSE g \in GrowthTimes : \A t \in GrowthTimes : t <= g

\* The margin kept below the horizon MaxTime: a resident that is due waits
\* for at most one shave of every other resident.
Slack == MaxResidents * MaxShaveTime

\* An unbounded run on a village with a barber and positive durations,
\* between two shave events.
UnboundedRun ==
    /\ count = 0 - 1
    /\ pc \in {"range", "body"}
    /\ HasBarber
    /\ AllPositive

\* C10: in an uninterrupted unbounded run with a barber and positive
\* durations, every resident whose next-shave time lies within the horizon
\* is shaved again, and every barber whose busy_till lies within the horizon
\* performs another shave.
C10_NoStarvation ==
    /\ \A r \in 1..MaxResidents :
          (UnboundedRun /\ r \in Positions /\ Due(r) + Slack <= MaxTime)
              ~> (pc = "shave_print" /\ resident = r)
    /\ \A b \in 1..MaxResidents :
          (/\ UnboundedRun
           /\ b \in Positions
           /\ isinstance_Barber(residents[b])
           /\ Busy(b) + Slack + MaxGrowthTime <= MaxTime)
              ~> (pc = "shave_print" /\ barber = b)

\* The resident added last is shaved a second time by the barber added last,
\* who is not the only barber.
C10_Witness ==
    /\ count = 0 - 1 /\ AllPositive /\ pc = "shave_print"
    /\ resident = Len(residents) /\ resident > 1
    /\ residents[resident].last_shave_time > 0
    /\ barber = Len(residents)
    /\ Len(barbers_of(residents)) >= 2
    /\ Busy(barber) > 0

====
